---------------------------- MODULE Spec2Model ----------------------------
(***************************************************************************)
(* The XML renderer of comrak (src/src/xml.rs): format_document writes the *)
(* prolog and runs XmlFormatter::format, an iterative pre/post traversal   *)
(* of the AST over an explicit work stack; format_node writes one node's   *)
(* tags and attributes, escape writes a byte payload with the four         *)
(* reserved bytes replaced by entities.  A byte is a one-character string, *)
(* the sink's contents a sequence of bytes.                                *)
(***************************************************************************)
EXTENDS Integers, Sequences, FiniteSets, TLC

VARIABLES
    tree,       \* the AST handed to format_document: [n, parent, data]
    sourcepos,  \* options.render.sourcepos
    sink,       \* "reliable": every write succeeds; "failing": a write may fail
    buffer,     \* the argument of a direct escape call
    pc,         \* "start", "format", "escape", "done" (Ok) or "failed" (Err)
    stack,      \* the work stack of format: entries [node, plain, phase]
    indent,     \* XmlFormatter.indent
    output,     \* the bytes the sink has accepted
    sinkErr,    \* history: the sink has reported a write failure
    tags,       \* history: the tags written, in order: [tag, node, name]
    visits      \* history: the loop iterations run: [node, phase, plain, ...]

vars == <<tree, sourcepos, sink, buffer, pc, stack, indent, output, sinkErr,
          tags, visits>>

---------------------------------------------------------------------------
(* Bounds of the explored inputs. *)

\* nodes of a tree rendered into a sink that may fail
MaxNodes == 3
\* nodes of a tree rendered into a reliable sink
MaxTreeNodes == 5
\* nodes of a tree of paragraphs
MaxWideNodes == 5
\* bytes of a buffer passed to escape
MaxLen == 3
\* bytes of a node's payload (literal, info, url, title)
MaxAttrLen == 1

\* the bytes payloads are made of: the four reserved bytes and a safe one
Alphabet == {"&", "<", ">", "\"", "a"}

RECURSIVE BytesUpTo(_)
BytesUpTo(n) ==
    IF n = 0 THEN {<< >>}
    ELSE LET shorter == BytesUpTo(n - 1)
         IN  shorter \cup {Append(s, b) : s \in shorter, b \in Alphabet}

---------------------------------------------------------------------------
(* Small helpers on byte sequences. *)

RECURSIVE Spaces(_)
Spaces(n) == IF n = 0 THEN << >> ELSE <<" ">> \o Spaces(n - 1)

Digit(d) == <<"0", "1", "2", "3", "4", "5", "6", "7", "8", "9">>[d + 1]

\* the decimal rendering "{}" of an unsigned integer
RECURSIVE Dec(_)
Dec(n) == IF n < 10 THEN <<Digit(n)>> ELSE Dec(n \div 10) \o <<Digit(n % 10)>>

\* the rendering "{}" of a bool
BoolStr(b) == IF b THEN <<"t", "r", "u", "e">> ELSE <<"f", "a", "l", "s", "e">>

IsPrefix(s, t) == Len(s) <= Len(t) /\ SubSeq(t, 1, Len(s)) = s

\* pat occurs in s at position i
OccursAt(pat, s, i) ==
    i + Len(pat) - 1 <= Len(s) /\ SubSeq(s, i, i + Len(pat) - 1) = pat

Contains(pat, s) == \E i \in 1..Len(s) : OccursAt(pat, s, i)

---------------------------------------------------------------------------
(* XmlFormatter::escape *)

XML_SAFE(byte) == byte \notin {"&", "<", ">", "\""}

esc(byte) ==
    CASE byte = "\"" -> <<"&", "q", "u", "o", "t", ";">>
      [] byte = "&" -> <<"&", "a", "m", "p", ";">>
      [] byte = "<" -> <<"&", "l", "t", ";">>
      [] byte = ">" -> <<"&", "g", "t", ";">>

\* The loop of escape with the index i (1-based), the start of the unflushed
\* safe run, and the bytes written so far.
\* escape_loop with the run start left on the unsafe byte
RECURSIVE escape_loop_stale_offset(_, _, _, _)
escape_loop_stale_offset(buf, i, offset, written) ==
    IF i > Len(buf)
    THEN written \o SubSeq(buf, offset, Len(buf))
    ELSE IF ~XML_SAFE(buf[i])
         THEN escape_loop_stale_offset(buf, i + 1, i,
                          written \o SubSeq(buf, offset, i - 1) \o esc(buf[i]))
         ELSE escape_loop_stale_offset(buf, i + 1, offset, written)

RECURSIVE escape_loop(_, _, _, _)
escape_loop(buf, i, offset, written) ==
    IF i > Len(buf)
    THEN written \o SubSeq(buf, offset, Len(buf))
    ELSE IF ~XML_SAFE(buf[i])
         THEN escape_loop(buf, i + 1, i + 1,
                          written \o SubSeq(buf, offset, i - 1) \o esc(buf[i]))
         ELSE escape_loop(buf, i + 1, offset, written)

\* the bytes escape(buf) writes when no write fails
escape(buf) == escape_loop(buf, 1, 1, << >>)

---------------------------------------------------------------------------
(* The AST. *)

NodeValue(kind) ==
    [kind |-> kind, literal |-> << >>, info |-> << >>, url |-> << >>,
     title |-> << >>, list_type |-> "Bullet", start |-> 0,
     delimiter |-> "Period", tight |-> FALSE, level |-> 0]

LiteralKinds == {"Text", "Code", "HtmlBlock", "HtmlInline"}

ShellKinds ==
    {"FrontMatter", "BlockQuote", "Item", "DescriptionList", "DescriptionItem",
     "DescriptionTerm", "DescriptionDetails", "ThematicBreak", "Paragraph",
     "LineBreak", "SoftBreak", "Strong", "Emph", "Strikethrough", "Superscript",
     "Table", "TableRow", "TableCell", "FootnoteDefinition",
     "FootnoteReference", "TaskItem"}

Kinds ==
    {"Document", "List", "Heading", "CodeBlock", "Link", "Image"}
        \cup LiteralKinds \cup ShellKinds

xml_node_name(value) ==
    CASE value.kind = "Document" -> <<"d", "o", "c", "u", "m", "e", "n", "t">>
      [] value.kind = "FrontMatter" -> <<"f", "r", "o", "n", "t", "_", "m", "a", "t", "t", "e", "r">>
      [] value.kind = "BlockQuote" -> <<"b", "l", "o", "c", "k", "_", "q", "u", "o", "t", "e">>
      [] value.kind = "List" -> <<"l", "i", "s", "t">>
      [] value.kind = "Item" -> <<"i", "t", "e", "m">>
      [] value.kind = "DescriptionList" -> <<"d", "e", "s", "c", "r", "i", "p", "t", "i", "o", "n", "_", "l", "i", "s", "t">>
      [] value.kind = "DescriptionItem" -> <<"d", "e", "s", "c", "r", "i", "p", "t", "i", "o", "n", "_", "i", "t", "e", "m">>
      [] value.kind = "DescriptionTerm" -> <<"d", "e", "s", "c", "r", "i", "p", "t", "i", "o", "n", "_", "t", "e", "r", "m">>
      [] value.kind = "DescriptionDetails" -> <<"d", "e", "s", "c", "r", "i", "p", "t", "i", "o", "n", "_", "d", "e", "t", "a", "i", "l", "s">>
      [] value.kind = "CodeBlock" -> <<"c", "o", "d", "e", "_", "b", "l", "o", "c", "k">>
      [] value.kind = "HtmlBlock" -> <<"h", "t", "m", "l", "_", "b", "l", "o", "c", "k">>
      [] value.kind = "Paragraph" -> <<"p", "a", "r", "a", "g", "r", "a", "p", "h">>
      [] value.kind = "Heading" -> <<"h", "e", "a", "d", "i", "n", "g">>
      [] value.kind = "ThematicBreak" -> <<"t", "h", "e", "m", "a", "t", "i", "c", "_", "b", "r", "e", "a", "k">>
      [] value.kind = "FootnoteDefinition" -> <<"f", "o", "o", "t", "n", "o", "t", "e", "_", "d", "e", "f", "i", "n", "i", "t", "i", "o", "n">>
      [] value.kind = "Table" -> <<"t", "a", "b", "l", "e">>
      [] value.kind = "TableRow" -> <<"t", "a", "b", "l", "e", "_", "r", "o", "w">>
      [] value.kind = "TableCell" -> <<"t", "a", "b", "l", "e", "_", "c", "e", "l", "l">>
      [] value.kind = "Text" -> <<"t", "e", "x", "t">>
      [] value.kind = "TaskItem" -> <<"t", "a", "s", "k", "i", "t", "e", "m">>
      [] value.kind = "SoftBreak" -> <<"s", "o", "f", "t", "b", "r", "e", "a", "k">>
      [] value.kind = "LineBreak" -> <<"l", "i", "n", "e", "b", "r", "e", "a", "k">>
      [] value.kind = "Code" -> <<"c", "o", "d", "e">>
      [] value.kind = "HtmlInline" -> <<"h", "t", "m", "l", "_", "i", "n", "l", "i", "n", "e">>
      [] value.kind = "Emph" -> <<"e", "m", "p", "h">>
      [] value.kind = "Strong" -> <<"s", "t", "r", "o", "n", "g">>
      [] value.kind = "Strikethrough" -> <<"s", "t", "r", "i", "k", "e", "t", "h", "r", "o", "u", "g", "h">>
      [] value.kind = "Superscript" -> <<"s", "u", "p", "e", "r", "s", "c", "r", "i", "p", "t">>
      [] value.kind = "Link" -> <<"l", "i", "n", "k">>
      [] value.kind = "Image" -> <<"i", "m", "a", "g", "e">>
      [] value.kind = "FootnoteReference" -> <<"f", "o", "o", "t", "n", "o", "t", "e", "_", "r", "e", "f", "e", "r", "e", "n", "c", "e">>

\* ListDelimType::xml_name
xml_name(delimiter) == IF delimiter = "Period" THEN <<"p", "e", "r", "i", "o", "d">> ELSE <<"p", "a", "r", "e", "n">>

Ast(value, pos) ==
    [value |-> value, start_line |-> pos[1], start_column |-> pos[2],
     end_line |-> pos[3], end_column |-> pos[4]]

\* parent vectors of the trees of n nodes: node 1 is the root, the children
\* of a node are ordered by their number
Parents(n) ==
    {[i \in 1..n |-> IF i = 1 THEN 0 ELSE q[i]] :
        q \in {f \in [2..n -> 1..n] : \A i \in 2..n : f[i] < i}}

Trees(maxn, asts) ==
    UNION {{[n |-> n, parent |-> p, data |-> d] :
               p \in Parents(n), d \in [1..n -> asts]} : n \in 1..maxn}

Nodes == 1..tree.n

\* AstNode::children: the children of node, first to last
children(node) ==
    SelectSeq([i \in 1..tree.n |-> i], LAMBDA i : tree.parent[i] = node)

\* reverse_children yielding the children first to last
reverse_children_forward(node) == children(node)

\* AstNode::reverse_children: the children of node, last to first
reverse_children(node) ==
    LET ch == children(node)
    IN  [i \in 1..Len(ch) |-> ch[Len(ch) + 1 - i]]

\* AstNode::first_child().is_some()
has_first_child(node) == \E i \in Nodes : tree.parent[i] = node

---------------------------------------------------------------------------
(* XmlFormatter::format_node *)

Tag(tag, node) ==
    [tag |-> tag, node |-> node, name |-> xml_node_name(tree.data[node].value)]

\* writes_sourcepos without the test of start_line
writes_sourcepos_unconditional(ast) == sourcepos

\* the condition under which the sourcepos attribute is written
writes_sourcepos(ast) == sourcepos /\ ast.start_line # 0

\* format_node(node, true) with self.indent = ind: the bytes written, the
\* new indent, the tags and the payload attributes among the bytes, and the
\* value returned
format_node_entering(node, ind) ==
    LET ast == tree.data[node]
        value == ast.value
        name == xml_node_name(value)
        has_child == has_first_child(node)
        sp == IF writes_sourcepos(ast)
              THEN <<" ", "s", "o", "u", "r", "c", "e", "p", "o", "s", "=", "\"">> \o Dec(ast.start_line) \o <<":">>
                     \o Dec(ast.start_column) \o <<"-">> \o Dec(ast.end_line)
                     \o <<":">> \o Dec(ast.end_column) \o <<"\"">>
              ELSE << >>
        was_literal == value.kind \in LiteralKinds \cup {"CodeBlock"}
        attrs ==
            CASE value.kind = "CodeBlock" /\ value.info # << >> ->
                     <<[key |-> "info", written |-> value.info]>>
              [] value.kind \in {"Link", "Image"} ->
                     <<[key |-> "destination", written |-> escape(value.url)],
                       [key |-> "title", written |-> escape(value.title)]>>
              [] OTHER -> << >>
        literal == <<" ", "x", "m", "l", ":", "s", "p", "a", "c", "e", "=", "\"", "p", "r", "e", "s", "e", "r", "v", "e", "\"", ">">> \o escape(value.literal)
                       \o <<"<", "/">> \o name
        body ==
            CASE value.kind = "Document" ->
                     <<" ", "x", "m", "l", "n", "s", "=", "\"", "h", "t", "t", "p", ":", "/", "/", "c", "o", "m", "m", "o", "n", "m", "a", "r", "k", ".", "o", "r", "g", "/", "x", "m", "l", "/", "1", ".", "0", "\"">>
              [] value.kind \in LiteralKinds -> literal
              [] value.kind = "List" ->
                     (IF value.list_type = "Bullet"
                      THEN <<" ", "t", "y", "p", "e", "=", "\"", "b", "u", "l", "l", "e", "t", "\"">>
                      ELSE <<" ", "t", "y", "p", "e", "=", "\"", "o", "r", "d", "e", "r", "e", "d", "\"", " ", "s", "t", "a", "r", "t", "=", "\"">> \o Dec(value.start)
                             \o <<"\"", " ", "d", "e", "l", "i", "m", "=", "\"">> \o xml_name(value.delimiter)
                             \o <<"\"">>)
                       \o <<" ", "t", "i", "g", "h", "t", "=", "\"">> \o BoolStr(value.tight) \o <<"\"">>
              [] value.kind = "Heading" ->
                     <<" ", "l", "e", "v", "e", "l", "=", "\"">> \o Dec(value.level) \o <<"\"">>
              [] value.kind = "CodeBlock" ->
                     (IF value.info # << >>
                      THEN <<" ", "i", "n", "f", "o", "=", "\"">> \o attrs[1].written \o <<"\"">>
                      ELSE << >>) \o literal
              [] value.kind \in {"Link", "Image"} ->
                     <<" ", "d", "e", "s", "t", "i", "n", "a", "t", "i", "o", "n", "=", "\"">> \o attrs[1].written
                       \o <<"\"", " ", "t", "i", "t", "l", "e", "=", "\"">> \o attrs[2].written \o <<"\"">>
              [] OTHER -> << >>
        close == IF has_child THEN << >>
                 ELSE IF ~was_literal THEN <<" ", "/">> ELSE << >>
    IN  [bytes |-> Spaces(ind) \o <<"<">> \o name \o sp \o body \o close
                     \o <<">", "\n">>,
         indent |-> IF has_child THEN ind + 2 ELSE ind,
         tags |-> IF was_literal THEN <<Tag("open", node), Tag("close", node)>>
                  ELSE IF has_child THEN <<Tag("open", node)>>
                  ELSE <<Tag("empty", node)>>,
         attrs |-> attrs,
         overflow |-> FALSE,
         ret |-> FALSE]

\* format_node(node, false) with self.indent = ind.  indent is a u32:
\* self.indent -= 2 below 2 is an arithmetic overflow, on which the build
\* with overflow checks panics before anything is written.
format_node_leaving(node, ind) ==
    IF has_first_child(node)
    THEN LET dedent == IF ind >= 2 THEN ind - 2 ELSE 0
         IN  [bytes |-> IF ind >= 2
                        THEN Spaces(dedent) \o <<"<", "/">>
                               \o xml_node_name(tree.data[node].value)
                               \o <<">", "\n">>
                        ELSE << >>,
              indent |-> dedent,
              tags |-> IF ind >= 2 THEN <<Tag("close", node)>> ELSE << >>,
              attrs |-> << >>,
              overflow |-> ind < 2,
              ret |-> FALSE]
    ELSE [bytes |-> << >>, indent |-> ind, tags |-> << >>, attrs |-> << >>,
          overflow |-> FALSE, ret |-> FALSE]

\* format_node reporting plain mode for the content of links and images
format_node_plain_alt(node, entering, ind) ==
    IF entering
    THEN [format_node_entering(node, ind) EXCEPT
              !.ret = tree.data[node].value.kind \in {"Link", "Image"}]
    ELSE format_node_leaving(node, ind)

format_node(node, entering, ind) ==
    IF entering THEN format_node_entering(node, ind)
    ELSE format_node_leaving(node, ind)

---------------------------------------------------------------------------
(* The sink and the work stack. *)

\* The number of bytes the sink accepts of the bytes a step writes: all of
\* them, or, when a write_all fails, any shorter prefix.
Accepts(bytes) ==
    IF sink = "failing" THEN 0..Len(bytes) ELSE {Len(bytes)}

\* Propagate with the Err of the write dropped
Propagate_ignored(ok, next) == next

\* the ? operator on the io::Result of a write: carry on, or return the Err
Propagate(ok, next) == IF ok THEN next ELSE "failed"

Entry(node, plain, phase) == [node |-> node, plain |-> plain, phase |-> phase]

Top(stk) == stk[Len(stk)]

Pop(stk) == SubSeq(stk, 1, Len(stk) - 1)

\* push_post pushing the Post entry twice
push_post_twice(stk, node) ==
    Append(Append(stk, Entry(node, FALSE, "Post")), Entry(node, FALSE, "Post"))

\* stack.push((node, false, Phase::Post))
push_post(stk, node) == Append(stk, Entry(node, FALSE, "Post"))

\* for ch in node.reverse_children() { stack.push((ch, new_plain, Phase::Pre)) }
push_children(stk, node, new_plain) ==
    LET rc == reverse_children(node)
    IN  stk \o [i \in 1..Len(rc) |-> Entry(rc[i], new_plain, "Pre")]

\* the bytes the Pre phase writes for a node in plain mode
plain_bytes(value) ==
    CASE value.kind \in {"Text", "Code", "HtmlInline"} -> escape(value.literal)
      [] value.kind \in {"LineBreak", "SoftBreak"} -> <<" ">>
      [] OTHER -> << >>

Visit(e, bytes, after, attrs) ==
    [node |-> e.node, phase |-> e.phase, plain |-> e.plain, bytes |-> bytes,
     before |-> indent, after |-> after, attrs |-> attrs]

---------------------------------------------------------------------------
(* The operations. *)

Prolog ==
    <<"<", "?", "x", "m", "l", " ", "v", "e", "r", "s", "i", "o", "n", "=", "\"", "1", ".", "0", "\"", " ", "e", "n", "c", "o", "d", "i", "n", "g", "=", "\"", "U", "T", "F", "-", "8", "\"", "?", ">", "\n">>
        \o <<"<", "!", "D", "O", "C", "T", "Y", "P", "E", " ", "d", "o", "c", "u", "m", "e", "n", "t", " ", "S", "Y", "S", "T", "E", "M", " ", "\"", "C", "o", "m", "m", "o", "n", "M", "a", "r", "k", ".", "d", "t", "d", "\"", ">", "\n">>

\* format_document: the prolog, XmlFormatter::new, the first stack entry
FormatDocument ==
    /\ pc = "start"
    /\ \E k \in Accepts(Prolog) :
          /\ output' = output \o SubSeq(Prolog, 1, k)
          /\ sinkErr' = (sinkErr \/ k < Len(Prolog))
          /\ pc' = Propagate(k = Len(Prolog), "format")
    /\ stack' = IF pc' = "format" THEN <<Entry(1, FALSE, "Pre")>> ELSE << >>
    /\ indent' = 0
    /\ UNCHANGED <<tree, sourcepos, sink, buffer, tags, visits>>

\* one iteration of the loop of format that pops a Pre entry
FormatPre ==
    /\ pc = "format"
    /\ stack # << >>
    /\ Top(stack).phase = "Pre"
    /\ LET e == Top(stack)
           r == format_node(e.node, TRUE, indent)
           bytes == IF e.plain THEN plain_bytes(tree.data[e.node].value)
                    ELSE r.bytes
           new_plain == IF e.plain THEN e.plain ELSE r.ret
           pushed == IF e.plain THEN Pop(stack)
                     ELSE push_post(Pop(stack), e.node)
       IN  \E k \in Accepts(bytes) :
              LET ok == (k = Len(bytes))
                  after == IF ok /\ ~e.plain THEN r.indent ELSE indent
              IN  /\ output' = output \o SubSeq(bytes, 1, k)
                  /\ sinkErr' = (sinkErr \/ ~ok)
                  /\ pc' = Propagate(ok, "format")
                  /\ stack' = IF ok THEN push_children(pushed, e.node, new_plain)
                              ELSE pushed
                  /\ indent' = after
                  /\ tags' = IF ok /\ ~e.plain THEN tags \o r.tags ELSE tags
                  /\ visits' = Append(visits,
                                      Visit(e, SubSeq(bytes, 1, k), after,
                                            IF e.plain THEN << >> ELSE r.attrs))
    /\ UNCHANGED <<tree, sourcepos, sink, buffer>>

\* one iteration of the loop of format that pops a Post entry
FormatPost ==
    /\ pc = "format"
    /\ stack # << >>
    /\ Top(stack).phase = "Post"
    /\ LET e == Top(stack)
           r == format_node(e.node, FALSE, indent)
       IN  IF e.plain \/ r.overflow
           THEN \* debug_assert!(!plain), or the overflow of indent
                /\ pc' = "panicked"
                /\ stack' = Pop(stack)
                /\ UNCHANGED <<output, sinkErr, indent, tags, visits>>
           ELSE \E k \in Accepts(r.bytes) :
                   LET ok == (k = Len(r.bytes))
                       after == IF ok THEN r.indent ELSE indent
                   IN  /\ output' = output \o SubSeq(r.bytes, 1, k)
                       /\ sinkErr' = (sinkErr \/ ~ok)
                       /\ pc' = Propagate(ok, "format")
                       /\ stack' = Pop(stack)
                       /\ indent' = after
                       /\ tags' = IF ok THEN tags \o r.tags ELSE tags
                       /\ visits' = Append(visits,
                                           Visit(e, SubSeq(r.bytes, 1, k),
                                                 after, << >>))
    /\ UNCHANGED <<tree, sourcepos, sink, buffer>>

\* the loop of format ends on the empty stack and format returns Ok(())
FormatReturn ==
    /\ pc = "format"
    /\ stack = << >>
    /\ pc' = "done"
    /\ UNCHANGED <<tree, sourcepos, sink, buffer, stack, indent, output,
                   sinkErr, tags, visits>>

\* a call of escape on buffer
Escape ==
    /\ pc = "escape"
    /\ LET bytes == escape(buffer)
       IN  \E k \in Accepts(bytes) :
              /\ output' = output \o SubSeq(bytes, 1, k)
              /\ sinkErr' = (sinkErr \/ k < Len(bytes))
              /\ pc' = Propagate(k = Len(bytes), "done")
    /\ UNCHANGED <<tree, sourcepos, sink, buffer, stack, indent, tags, visits>>

---------------------------------------------------------------------------
(* Initial states and specifications. *)

NoPos == <<0, 0, 0, 0>>
SomePos == <<1, 1, 1, 12>>

InitRun(start) ==
    /\ pc = start
    /\ stack = << >>
    /\ indent = 0
    /\ output = << >>
    /\ sinkErr = FALSE
    /\ tags = << >>
    /\ visits = << >>

\* format_document on small trees of documents, texts and links, into a
\* sink that may fail at any byte
RichAsts ==
    {Ast(NodeValue("Document"), NoPos),
     Ast([NodeValue("Text") EXCEPT !.literal = <<"a", "&">>], NoPos),
     Ast([NodeValue("Link") EXCEPT !.url = <<"\"", "<">>], NoPos)}

Init ==
    /\ tree \in Trees(MaxNodes, RichAsts)
    /\ sourcepos = FALSE
    /\ sink \in {"reliable", "failing"}
    /\ buffer = << >>
    /\ InitRun("start")

Next == FormatDocument \/ FormatPre \/ FormatPost \/ FormatReturn

Spec == Init /\ [][Next]_vars

\* format_document on larger trees of paragraphs and texts, into a reliable sink
PlainAsts ==
    {Ast(NodeValue("Paragraph"), NoPos),
     Ast([NodeValue("Text") EXCEPT !.literal = <<"a">>], NoPos)}

InitTree ==
    /\ tree \in Trees(MaxTreeNodes, PlainAsts)
    /\ sourcepos = FALSE
    /\ sink = "reliable"
    /\ buffer = << >>
    /\ InitRun("start")

SpecTree == InitTree /\ [][Next]_vars

\* format_document on trees of paragraphs of every shape, into a reliable sink
InitWide ==
    /\ tree \in Trees(MaxWideNodes, {Ast(NodeValue("Paragraph"), NoPos)})
    /\ sourcepos = FALSE
    /\ sink = "reliable"
    /\ buffer = << >>
    /\ InitRun("start")

SpecWide == InitWide /\ [][Next]_vars

\* format_document on one node of any kind and payload, alone or with one
\* child, with and without source positions
Payloads == BytesUpTo(MaxAttrLen)

NodeValues ==
    {NodeValue(k) : k \in ShellKinds \cup {"Document"}}
      \cup {[NodeValue(k) EXCEPT !.literal = l] : k \in LiteralKinds, l \in Payloads}
      \cup {[NodeValue("CodeBlock") EXCEPT !.info = i, !.literal = l] :
               i \in Payloads, l \in Payloads}
      \cup {[NodeValue(k) EXCEPT !.url = u, !.title = t] :
               k \in {"Link", "Image"}, u \in Payloads, t \in Payloads}
      \cup {[NodeValue("List") EXCEPT !.list_type = lt, !.start = s,
                                       !.delimiter = d, !.tight = t] :
               lt \in {"Bullet", "Ordered"}, s \in {1, 3},
               d \in {"Period", "Paren"}, t \in BOOLEAN}
      \cup {[NodeValue("Heading") EXCEPT !.level = l] : l \in 1..6}

InitNode ==
    /\ \E value \in NodeValues, pos \in {NoPos, SomePos}, n \in 1..2 :
          tree = [n |-> n,
                  parent |-> [i \in 1..n |-> i - 1],
                  data |-> [i \in 1..n |->
                               IF i = 1 THEN Ast(value, pos)
                               ELSE Ast(NodeValue("Paragraph"), SomePos)]]
    /\ sourcepos \in BOOLEAN
    /\ sink = "reliable"
    /\ buffer = << >>
    /\ InitRun("start")

SpecNode == InitNode /\ [][Next]_vars

\* escape on every buffer of up to MaxLen bytes
InitEscape ==
    /\ tree = [n |-> 0, parent |-> << >>, data |-> << >>]
    /\ sourcepos = FALSE
    /\ sink \in {"reliable", "failing"}
    /\ buffer \in BytesUpTo(MaxLen)
    /\ InitRun("escape")

NextEscape == Escape

SpecEscape == InitEscape /\ [][NextEscape]_vars

---------------------------------------------------------------------------
(* Reference notions of the tree, defined by structural recursion. *)

RECURSIVE Level(_)
Level(node) == IF tree.parent[node] = 0 THEN 1 ELSE 1 + Level(tree.parent[node])

\* the depth of the tree, in levels of nodes
Depth == CHOOSE d \in 1..tree.n :
            /\ \E i \in Nodes : Level(i) = d
            /\ \A i \in Nodes : Level(i) <= d

\* the largest number of children of a single node
Fanout == CHOOSE w \in 0..tree.n :
             /\ \E i \in Nodes : Len(children(i)) = w
             /\ \A i \in Nodes : Len(children(i)) <= w

RECURSIVE IsAncestor(_, _)
IsAncestor(a, node) ==
    /\ tree.parent[node] # 0
    /\ (tree.parent[node] = a \/ IsAncestor(a, tree.parent[node]))

Descendants(node) == {d \in Nodes : IsAncestor(node, d)}

RECURSIVE Concat(_)
Concat(seqs) == IF seqs = << >> THEN << >> ELSE Head(seqs) \o Concat(Tail(seqs))

\* the nodes of the subtree of node in document order
RECURSIVE PreOrder(_)
PreOrder(node) ==
    LET ch == children(node)
    IN  <<node>> \o Concat([i \in 1..Len(ch) |-> PreOrder(ch[i])])

\* the document a recursive descent writes for the subtree of node
RECURSIVE Subtree(_, _)
Subtree(node, ind) ==
    LET open == format_node(node, TRUE, ind)
        ch == children(node)
        close == format_node(node, FALSE, open.indent)
    IN  open.bytes \o Concat([i \in 1..Len(ch) |-> Subtree(ch[i], open.indent)])
            \o close.bytes

\* the whole output of format_document into a sink that never fails
Expected == Prolog \o Subtree(1, 0)

VisitsOf(node, phase) ==
    {i \in 1..Len(visits) : visits[i].node = node /\ visits[i].phase = phase}

TagsOf(node, tag) ==
    {i \in 1..Len(tags) : tags[i].node = node /\ tags[i].tag = tag}

Parent(node) == tree.parent[node]

IsLiteral(node) == tree.data[node].value.kind \in LiteralKinds \cup {"CodeBlock"}

---------------------------------------------------------------------------
(* C1: when format completes without a write failure, every node with a   *)
(* child has written exactly one opening and one closing tag of its name,  *)
(* the closing tag after all tags of its descendants, and every closing    *)
(* tag closes the most recently opened tag that is still open.             *)

Unmatched == <<[tag |-> "unmatched", node |-> 0, name |-> << >>]>>

\* the tags still open after the first i tags; Unmatched once a closing tag
\* did not close the innermost open tag
RECURSIVE OpenAfter(_)
OpenAfter(i) ==
    IF i = 0 THEN << >>
    ELSE LET open == OpenAfter(i - 1)
             t == tags[i]
         IN  IF open = Unmatched THEN open
             ELSE IF t.tag = "open" THEN Append(open, t)
             ELSE IF t.tag = "empty" THEN open
             ELSE IF /\ open # << >>
                     /\ Top(open).node = t.node
                     /\ Top(open).name = t.name
                  THEN Pop(open)
                  ELSE Unmatched

TagsBalanced ==
    pc = "done" =>
        /\ \A n \in Nodes :
              has_first_child(n) =>
                  /\ Cardinality(TagsOf(n, "open")) = 1
                  /\ Cardinality(TagsOf(n, "close")) = 1
                  /\ \A c \in TagsOf(n, "close") :
                        \A j \in 1..Len(tags) :
                            tags[j].node \in Descendants(n) => j < c
        /\ OpenAfter(Len(tags)) = << >>

(* C2: indent is 2 x the number of nodes with a child whose opening tag    *)
(* is written and whose closing tag is not, a non-negative multiple of 2,  *)
(* and 0 when the work stack is empty.                                     *)

OpenContainers ==
    {n \in Nodes : /\ has_first_child(n)
                   /\ TagsOf(n, "open") # {}
                   /\ TagsOf(n, "close") = {}}

IndentCountsOpenContainers ==
    pc \in {"format", "done"} =>
        /\ indent >= 0
        /\ indent % 2 = 0
        /\ indent = 2 * Cardinality(OpenContainers)
        /\ (stack = << >> => indent = 0)

(* C3: the Pre steps run once per node in document order, and the Post     *)
(* step of a node runs after the Pre and Post steps of all its descendants *)
(* and before the Pre step of its next sibling.                            *)

PreNodes ==
    LET pre == SelectSeq(visits, LAMBDA v : v.phase = "Pre")
    IN  [i \in 1..Len(pre) |-> pre[i].node]

DocumentOrder ==
    /\ IsPrefix(PreNodes, PreOrder(1))
    /\ (pc = "done" => PreNodes = PreOrder(1))
    /\ \A i \in 1..Len(visits) :
          LET v == visits[i]
          IN  /\ v.phase = "Post" =>
                    /\ VisitsOf(v.node, "Post") = {i}
                    /\ \A d \in Descendants(v.node) :
                          /\ \E j \in VisitsOf(d, "Pre") : j < i
                          /\ \E j \in VisitsOf(d, "Post") : j < i
              /\ v.phase = "Pre" =>
                    \A s \in Nodes :
                        (Parent(s) = Parent(v.node) /\ s < v.node) =>
                            \E j \in VisitsOf(s, "Post") : j < i

\* a finished traversal of a tree in which a node with a child has a next
\* sibling, and the numbering of the nodes is not the document order
DocumentOrderWitness ==
    /\ pc = "done"
    /\ PreNodes # [i \in 1..tree.n |-> i]
    /\ \E a, b \in Nodes :
          /\ Parent(a) = Parent(b)
          /\ a < b
          /\ has_first_child(a)

(* C4: escape writes its input with & < > " replaced by &amp; &lt; &gt;    *)
(* &quot; in place and every other byte copied; an input without reserved  *)
(* bytes is written unchanged, and no raw < > " is written.                *)

Entity(byte) ==
    IF byte = "&" THEN <<"&", "a", "m", "p", ";">>
    ELSE IF byte = "<" THEN <<"&", "l", "t", ";">>
    ELSE IF byte = ">" THEN <<"&", "g", "t", ";">>
    ELSE IF byte = "\"" THEN <<"&", "q", "u", "o", "t", ";">>
    ELSE <<byte>>

Range(s) == {s[i] : i \in 1..Len(s)}

EscapeReplaces ==
    pc = "done" =>
        /\ output = Concat([i \in 1..Len(buffer) |-> Entity(buffer[i])])
        /\ (Range(buffer) \cap {"&", "<", ">", "\""} = {} => output = buffer)
        /\ Range(output) \cap {"<", ">", "\""} = {}

EscapeReplacesWitness ==
    /\ pc = "done"
    /\ Len(buffer) = 3
    /\ buffer[1] = "a"
    /\ buffer[2] \in {"&", "<", ">", "\""}
    /\ buffer[3] = "a"
    /\ Len(output) > Len(buffer)

(* C5: a literal node (Text, Code, HtmlBlock, HtmlInline, CodeBlock) is    *)
(* written whole by its Pre step, opening tag to closing tag, with indent  *)
(* unchanged, and its Post step writes nothing and leaves indent alone,    *)
(* whether or not the node has children.                                   *)

EndsWith(s, suffix) ==
    Len(suffix) <= Len(s) /\ SubSeq(s, Len(s) - Len(suffix) + 1, Len(s)) = suffix

LiteralInPreOnly ==
    \A i \in 1..Len(visits) :
        LET v == visits[i]
            name == xml_node_name(tree.data[v.node].value)
        IN  IsLiteral(v.node) =>
                /\ v.after = v.before
                /\ v.phase = "Pre" =>
                      /\ IsPrefix(Spaces(v.before) \o <<"<">> \o name, v.bytes)
                      /\ Contains(<<" ", "x", "m", "l", ":", "s", "p", "a", "c", "e", "=", "\"", "p", "r", "e", "s", "e", "r", "v", "e", "\"", ">">>, v.bytes)
                      /\ EndsWith(v.bytes, <<"<", "/">> \o name \o <<">", "\n">>)
                /\ v.phase = "Post" => v.bytes = << >>

(* C6: the bytes written between the quotes of an attribute taken from a   *)
(* node's payload (destination, title, info) hold no raw " < > and no &    *)
(* that does not start an entity.                                          *)

IsEscaped(w) ==
    \A p \in 1..Len(w) :
        /\ w[p] \notin {"\"", "<", ">"}
        /\ w[p] = "&" =>
              \/ OccursAt(<<"&", "a", "m", "p", ";">>, w, p)
              \/ OccursAt(<<"&", "l", "t", ";">>, w, p)
              \/ OccursAt(<<"&", "g", "t", ";">>, w, p)
              \/ OccursAt(<<"&", "q", "u", "o", "t", ";">>, w, p)

AttributesEscaped ==
    \A i \in 1..Len(visits) :
        \A a \in 1..Len(visits[i].attrs) :
            IsEscaped(visits[i].attrs[a].written)

(* C7: at the first failing write format_document returns the error, no    *)
(* stack entry is processed and nothing is written after it, and the bytes *)
(* the sink accepted are a prefix of the output a sink that never fails    *)
(* gets for the same tree.                                                 *)

FailFast ==
    /\ sinkErr => pc = "failed"
    /\ pc = "failed" =>
          /\ sinkErr
          /\ IsPrefix(output, Expected)
          /\ output # Expected
    /\ pc = "done" => output = Expected

\* a write failed in the middle of the traversal, inside a later step, with
\* entries left on the stack
FailFastWitness ==
    /\ pc = "failed"
    /\ Len(visits) >= 3
    /\ Len(stack) >= 2
    /\ visits[Len(visits)].bytes # << >>

(* C8, as claimed: the work stack never holds more than 2 x depth entries. *)

SourceposIffEnabledAndKnown ==
    \A i \in 1..Len(visits) :
        LET v == visits[i]
            ast == tree.data[v.node]
            name == xml_node_name(ast.value)
        IN  v.phase = "Pre" =>
                /\ Contains(<<" ", "s", "o", "u", "r", "c", "e", "p", "o", "s", "=">>, v.bytes)
                      <=> (sourcepos /\ ast.start_line # 0)
                /\ (sourcepos /\ ast.start_line = 1) =>
                      OccursAt(<<" ", "s", "o", "u", "r", "c", "e", "p", "o", "s", "=", "\"", "1", ":", "1", "-", "1", ":", "1", "2", "\"">>, v.bytes,
                               v.before + Len(name) + 2)

\* with the option on, a node without position and a node with one are
\* both rendered
SourceposIffEnabledAndKnownWitness ==
    /\ pc = "done"
    /\ sourcepos
    /\ tree.n = 2
    /\ tree.data[1].start_line = 0
    /\ tree.data[2].start_line # 0

(* C10: in a rendering started by format_document no stack entry is ever   *)
(* plain, the assertion of the Post phase never fails, and every node      *)
(* writes its own tag.                                                     *)

NeverPlain ==
    /\ \A i \in 1..Len(stack) : ~stack[i].plain
    /\ \A i \in 1..Len(visits) : ~visits[i].plain
    /\ pc # "panicked"
    /\ pc = "done" =>
          \A n \in Nodes : TagsOf(n, "open") \cup TagsOf(n, "empty") # {}

\* a finished rendering of a link with two nodes below it
NeverPlainWitness ==
    /\ pc = "done"
    /\ tree.n = 3
    /\ tree.data[1].value.kind = "Link"
    /\ Len(visits) = 6

=============================================================================
